---------------------------- MODULE Spec2Model ----------------------------
(***************************************************************************)
(* A model of src/index.ts: the YouTube channel scraper.                   *)
(*                                                                         *)
(* JavaScript strings are sequences of one-character strings, so that the  *)
(* regular expressions of the program (the sheet filter, the handle        *)
(* extractor, the duration parser, the "v=" split) are computed character  *)
(* by character.  JavaScript objects whose key order matters (VideoData,   *)
(* read by Object.keys / Object.values) are sequences of <<key, value>>    *)
(* pairs in insertion order.  Every remote response is an input, drawn     *)
(* from a small set where the call is made.                                *)
(***************************************************************************)
EXTENDS Integers, Sequences, FiniteSets, TLC

\* ------------------------------------------------------------------ bounds

\* Longest list readGoogleSheet hands to processYouTubeChannels.
MaxUrls == 6
\* Most URLs of that list that carry a channel handle.
MaxHandles == 2
\* Most items in a catalog (search) response of the main specification.
MaxItems == 2
\* Most rows in the sheet column read by readGoogleSheet.
MaxSheetRows == 3

\* ------------------------------------------------------- program constants

\* .slice(0, 5) in processYouTubeChannels
RowCap == 5
\* maxResults=10 in the search URL of getVideos
MaxResults == 10

\* ----------------------------------------------------------------- strings

Lower == {"a","b","c","d","e","f","g","h","i","j","k","l","m",
          "n","o","p","q","r","s","t","u","v","w","x","y","z"}
Upper == {"A","B","C","D","E","F","G","H","I","J","K","L","M",
          "N","O","P","Q","R","S","T","U","V","W","X","Y","Z"}
Digits == <<"0","1","2","3","4","5","6","7","8","9">>
DigitChars == {Digits[k] : k \in 1..10}
\* \s of a JavaScript regular expression, as far as the inputs go
Whitespace == {" ", "\t", "\n", "\r"}

\* the "i" flag: letters are compared after case folding
ToLowerChar(c) ==
  CASE c = "Y" -> "y" [] c = "O" -> "o" [] c = "U" -> "u" [] c = "T" -> "t"
    [] c = "B" -> "b" [] c = "E" -> "e" [] c = "C" -> "c" [] c = "M" -> "m"
    [] c = "H" -> "h" [] c = "P" -> "p" [] c = "S" -> "s" [] c = "W" -> "w"
    [] OTHER -> c

\* lit occurs in s at 0-based offset p (case-sensitive)
HasAt(s, p, lit) ==
  /\ p + Len(lit) <= Len(s)
  /\ \A k \in 1..Len(lit) : s[p + k] = lit[k]

\* lit (lower case) occurs in s at 0-based offset p, ignoring case
HasAtI(s, p, lit) ==
  /\ p + Len(lit) <= Len(s)
  /\ \A k \in 1..Len(lit) : ToLowerChar(s[p + k]) = lit[k]

\* 0-based offset just past the longest run of characters of class cls that
\* starts at offset p
RunEnd(s, p, cls) ==
  LET stops == {q \in p..Len(s) : q = Len(s) \/ s[q + 1] \notin cls}
  IN  CHOOSE q \in stops : \A r \in stops : q <= r

Min(a, b) == IF a <= b THEN a ELSE b

\* String.prototype.trim
Trim(s) ==
  LET keep == {k \in 1..Len(s) : s[k] \notin Whitespace}
  IN  IF keep = {} THEN <<>>
      ELSE LET lo == CHOOSE k \in keep : \A m \in keep : k <= m
               hi == CHOOSE k \in keep : \A m \in keep : k >= m
           IN  SubSeq(s, lo, hi)

\* Array.prototype.flat on an array of arrays
RECURSIVE Flat(_)
Flat(rows) == IF rows = <<>> THEN <<>> ELSE Head(rows) \o Flat(Tail(rows))


\* 0-based offset just past the longest run of characters outside stop that
\* starts at offset p
RunEndNot(s, p, stop) ==
  LET stops == {q \in p..Len(s) : q = Len(s) \/ s[q + 1] \in stop}
  IN  CHOOSE q \in stops : \A r \in stops : q <= r

\* the least element of a non-empty set of integers
Least(S) == CHOOSE x \in S : \A y \in S : x <= y

\* ------------------------------------------------- readGoogleSheet's regex

\* /(https?:\/\/)?(www\.)?(youtube\.com|youtu\.be)\/[^\s]+/gi: the literal
\* part, one entry per way through the optional groups and the alternation,
\* in the order a backtracking matcher tries them.
YoutubeLiterals ==
  << <<"h","t","t","p","s",":","/","/">> \o <<"w","w","w",".">> \o <<"y","o","u","t","u","b","e",".","c","o","m","/">>, <<"h","t","t","p","s",":","/","/">> \o <<"w","w","w",".">> \o <<"y","o","u","t","u",".","b","e","/">>,
     <<"h","t","t","p","s",":","/","/">> \o <<"y","o","u","t","u","b","e",".","c","o","m","/">>, <<"h","t","t","p","s",":","/","/">> \o <<"y","o","u","t","u",".","b","e","/">>,
     <<"h","t","t","p",":","/","/">> \o <<"w","w","w",".">> \o <<"y","o","u","t","u","b","e",".","c","o","m","/">>, <<"h","t","t","p",":","/","/">> \o <<"w","w","w",".">> \o <<"y","o","u","t","u",".","b","e","/">>,
     <<"h","t","t","p",":","/","/">> \o <<"y","o","u","t","u","b","e",".","c","o","m","/">>, <<"h","t","t","p",":","/","/">> \o <<"y","o","u","t","u",".","b","e","/">>,
     <<"w","w","w",".">> \o <<"y","o","u","t","u","b","e",".","c","o","m","/">>, <<"w","w","w",".">> \o <<"y","o","u","t","u",".","b","e","/">>,
     <<"y","o","u","t","u","b","e",".","c","o","m","/">>, <<"y","o","u","t","u",".","b","e","/">> >>

\* The end offset of the regex's match that starts at offset p, or -1.
YoutubeMatchEndAt(s, p) ==
  LET ok == {k \in 1..Len(YoutubeLiterals) :
               /\ HasAtI(s, p, YoutubeLiterals[k])
               /\ p + Len(YoutubeLiterals[k]) < Len(s)
               /\ s[p + Len(YoutubeLiterals[k]) + 1] \notin Whitespace}
  IN  IF ok = {} THEN -1
      ELSE RunEndNot(s, p + Len(YoutubeLiterals[Least(ok)]), Whitespace)

\* RegExp.prototype.test on a regex with the "g" flag: the search starts at
\* lastIndex; a match moves lastIndex to its end, a failure resets it to 0.
RegexTest(s, lastIndex) ==
  LET starts == {p \in lastIndex..Len(s) : YoutubeMatchEndAt(s, p) # -1}
  IN  IF starts = {} THEN [found |-> FALSE, lastIndex |-> 0]
      ELSE [found |-> TRUE, lastIndex |-> YoutubeMatchEndAt(s, Least(starts))]

\* ---------------------------------------------------- extractHandleFromUrl

HandleChars == Lower \cup Upper \cup DigitChars \cup {"_", "-"}
HandleLiteral == <<"y","o","u","t","u","b","e",".","c","o","m","/","@">>
\* a string that is no handle: the empty string stands for null (a match's
\* group 1 is never empty)
NoHandle == <<>>

\* url.match(/youtube\.com\/@([a-zA-Z0-9_-]+)/): group 1 of the leftmost
\* match, or null
extractHandleFromUrl(url) ==
  LET starts == {p \in 0..Len(url) :
                   /\ HasAt(url, p, HandleLiteral)
                   /\ p + Len(HandleLiteral) < Len(url)
                   /\ url[p + Len(HandleLiteral) + 1] \in HandleChars}
  IN  IF starts = {} THEN NoHandle
      ELSE LET b == Least(starts) + Len(HandleLiteral)
           IN  SubSeq(url, b + 1, RunEnd(url, b, HandleChars))

\* ------------------------------------------------------------ parseDuration

\* parseInt(digits, 10) of a non-empty run of decimal digits
RECURSIVE ParseInt(_)
ParseInt(ds) ==
  IF ds = <<>> THEN 0
  ELSE 10 * ParseInt(SubSeq(ds, 1, Len(ds) - 1))
       + (CHOOSE k \in 0..9 : Digits[k + 1] = ds[Len(ds)])

\* `${n}` of a non-negative integer
RECURSIVE NumToString(_)
NumToString(n) ==
  IF n < 10 THEN <<Digits[n + 1]>>
  ELSE NumToString(n \div 10) \o <<Digits[(n % 10) + 1]>>

\* One optional group (\d+X)? tried at offset p: the offset after it and the
\* digits it captured (empty when the group does not take part).
DurationGroup(s, p, unit) ==
  LET e == RunEnd(s, p, DigitChars)
  IN  IF e > p /\ e < Len(s) /\ s[e + 1] = unit
      THEN [next |-> e + 1, digits |-> SubSeq(s, p + 1, e)]
      ELSE [next |-> p, digits |-> <<>>]

\* duration.match(/PT(\d+H)?(\d+M)?(\d+S)?/) and the rebuilt string
parseDuration(duration) ==
  LET starts == {p \in 0..Len(duration) : HasAt(duration, p, <<"P","T">>)}
  IN  IF starts = {} THEN duration
      ELSE LET g1 == DurationGroup(duration, Least(starts) + 2, "H")
               g2 == DurationGroup(duration, g1.next, "M")
               g3 == DurationGroup(duration, g2.next, "S")
               \* parseInt(match[k]?.replace(..) || "0", 10)
               hours   == ParseInt(g1.digits)
               minutes == ParseInt(g2.digits)
               seconds == ParseInt(g3.digits)
               h == IF hours > 0 THEN NumToString(hours) \o <<"h", " ">> ELSE <<>>
               m == IF minutes > 0 THEN NumToString(minutes) \o <<"m", " ">> ELSE <<>>
               sec == IF seconds > 0 THEN NumToString(seconds) \o <<"s">> ELSE <<>>
           IN  Trim(h \o m \o sec)

\* ------------------------------------------------------------- video URLs

\* `https://www.youtube.com/watch?v=${video.id.videoId}` in getVideos
WatchPrefix == <<"h","t","t","p","s",":","/","/","w","w","w",".","y","o","u","t","u","b","e",".","c","o","m","/","w","a","t","c","h","?","v","=">>
WatchUrl(videoId) == WatchPrefix \o videoId

\* video.url.split("v=")[1]: the text between the first "v=" and the next
\* one (or the end); the empty string stands for undefined
SplitV1(url) ==
  LET seps == {p \in 0..Len(url) : HasAt(url, p, <<"v","=">>)}
  IN  IF seps = {} THEN <<>>
      ELSE LET b == Least(seps) + 2
               later == {p \in seps : p >= b}
           IN  SubSeq(url, b + 1, IF later = {} THEN Len(url) ELSE Least(later))


\* ------------------------------------------------------ JavaScript objects

\* An object whose key order is observed (VideoData): <<key, value>> pairs in
\* insertion order.
ObjKeys(o) == [k \in 1..Len(o) |-> o[k][1]]
ObjValues(o) == [k \in 1..Len(o) |-> o[k][2]]
ObjHas(o, key) == \E k \in 1..Len(o) : o[k][1] = key
ObjGet(o, key) == o[CHOOSE k \in 1..Len(o) : o[k][1] = key][2]
\* o.key = value: an existing key keeps its place, a new one goes last
ObjSet(o, key, value) ==
  IF ObjHas(o, key)
  THEN [k \in 1..Len(o) |-> IF o[k][1] = key THEN <<key, value>> ELSE o[k]]
  ELSE Append(o, <<key, value>>)

\* null, as the value of `details`
Null == [null |-> TRUE]

\* --------------------------------------------------------- remote responses

\* The input list of the main specification: a URL with a handle and one the
\* sheet filter accepts but that names no channel.
UrlWithHandle == <<"y","o","u","t","u","b","e",".","c","o","m","/","@","a","_","1","/","v","i","d","e","o","s">>
UrlNoHandle == <<"y","o","u","t","u",".","b","e","/","x">>

\* ISO-8601 duration tokens a detail record may carry
DefaultToken == <<"P","T","2","H","3","M","4","S">>
DurationTokens == { DefaultToken, <<"P","T","5","M">>, <<"P","T","0","S">> }

\* The channels lookup (getChannelId): fetch may throw; the body may be an
\* error body without items, hold no item, an item without id, or the channel.
ChannelResponses(h) ==
  { [threw |-> TRUE],
    [threw |-> FALSE, json |-> [error |-> 403]],
    [threw |-> FALSE, json |-> [items |-> <<>>]],
    [threw |-> FALSE, json |-> [items |-> <<[kind |-> "channel"]>>]],
    [threw |-> FALSE, json |-> [items |-> <<[id |-> <<"U","C">> \o h]>>]] }

\* The k-th search result for the channel of input row r
VideoItem(r, k, cid) ==
  [ id |-> [videoId |-> <<"v">> \o NumToString(r) \o <<"_">> \o NumToString(k)],
    snippet |-> [ title |-> <<"t">> \o NumToString(k),
                  channelId |-> cid,
                  description |-> <<"d">>,
                  channelTitle |-> <<"c">>,
                  publishedAt |-> <<"p">>,
                  publishTime |-> <<"q">> ] ]

\* The search (getVideos): fetch may throw; the body may be an error body, a
\* list of n well-formed items, or a list with a record that has no snippet.
CatalogResponses(r, cid, sizes) ==
  { [threw |-> TRUE],
    [threw |-> FALSE, json |-> [error |-> 403]],
    [threw |-> FALSE,
     json |-> [items |-> <<VideoItem(r, 1, cid), [id |-> [videoId |-> <<"v">>]]>>]] }
  \cup { [threw |-> FALSE, json |-> [items |-> [k \in 1..n |-> VideoItem(r, k, cid)]]]
         : n \in sizes }

\* A video resource with statistics and contentDetails, and a partial one
\* that has neither
FullDetail(tok) ==
  [ statistics |-> [viewCount |-> <<"1","0">>, likeCount |-> <<"2">>,
                    commentCount |-> <<"3">>],
    contentDetails |-> [duration |-> tok] ]
PartialDetail == [kind |-> "youtube#video"]

\* The videos lookup (getVideoDetails): fetch may throw; the body may be an
\* error body, hold no item, a full record or a partial one.
DetailResponses(tokens) ==
  { [threw |-> TRUE],
    [threw |-> FALSE, json |-> [error |-> 403]],
    [threw |-> FALSE, json |-> [items |-> <<>>]],
    [threw |-> FALSE, json |-> [items |-> <<PartialDetail>>]] }
  \cup { [threw |-> FALSE, json |-> [items |-> <<FullDetail(t)>>]] : t \in tokens }

\* ------------------------------------------------------------ the functions

\* getChannelId: json.items?.[0]?.id || null, and null when fetch or
\* response.json() throws; the empty string stands for null
getChannelId(resp) ==
  IF resp.threw THEN <<>>
  ELSE IF "items" \in DOMAIN resp.json /\ Len(resp.json.items) > 0
          /\ "id" \in DOMAIN resp.json.items[1]
       THEN resp.json.items[1].id
       ELSE <<>>

\* One element of json.items.map(...) in getVideos
VideoOf(item) ==
  << <<"title", item.snippet.title>>,
     <<"url", WatchUrl(item.id.videoId)>>,
     <<"channelId", item.snippet.channelId>>,
     <<"description", item.snippet.description>>,
     <<"channelTitle", item.snippet.channelTitle>>,
     <<"publishedAt", item.snippet.publishedAt>>,
     <<"publishTime", item.snippet.publishTime>> >>

\* Whether the try block of getVideos throws: fetch or response.json()
\* fails, json.items is undefined, or an item has no snippet
getVideosThrows(resp) ==
  \/ resp.threw
  \/ "items" \notin DOMAIN resp.json
  \/ \E k \in 1..Len(resp.json.items) : "snippet" \notin DOMAIN resp.json.items[k]

\* getVideos: every item mapped, in response order; an exception is caught
\* and gives []
getVideos(resp) ==
  IF getVideosThrows(resp) THEN <<>>
  ELSE [k \in 1..Len(resp.json.items) |-> VideoOf(resp.json.items[k])]

\* getVideoDetails: the first item, or null
getVideoDetails(resp) ==
  IF resp.threw THEN Null
  ELSE IF "items" \in DOMAIN resp.json /\ Len(resp.json.items) > 0
       THEN resp.json.items[1]
       ELSE Null

\* The assignments of the if (details) block; video.duration is never set,
\* its assignment being commented out
Enrich(video, d) ==
  LET v1 == ObjSet(video, "viewCount", d.statistics.viewCount)
      v2 == ObjSet(v1, "likeCount", d.statistics.likeCount)
      v3 == ObjSet(v2, "commentCount", d.statistics.commentCount)
  IN  ObjSet(v3, "readableDuration",
             parseDuration(IF ObjHas(v3, "duration") THEN ObjGet(v3, "duration")
                           ELSE <<>>))

\* A faulty variant of AfterDetails: a video whose lookup gave nothing is
\* dropped from the row.
AfterDetailsDropping(vs, k, d) ==
  IF d = Null
  THEN [m \in 1..(Len(vs) - 1) |-> IF m < k THEN vs[m] ELSE vs[m + 1]]
  ELSE [vs EXCEPT ![k] = Enrich(@, d)]

\* const videos after the if (details) block for its k-th element (the
\* records are enriched in place); d has statistics when it is not null
AfterDetails(vs, k, d) ==
  IF d = Null THEN vs ELSE [vs EXCEPT ![k] = Enrich(@, d)]

\* A faulty variant of Push: the row's videos are put in front (unshift).
PushFront(all, vs) ==
  vs \o all

\* allVideos.push(...videos)
Push(all, vs) ==
  all \o vs

\* The array of arrays writeToExcel hands to aoa_to_sheet: the keys of the
\* first record, then the values of every record
SheetOf(data) ==
  <<ObjKeys(data[1])>> \o [k \in 1..Len(data) |-> ObjValues(data[k])]

\* A faulty variant of writeToExcel: the file is rewritten once per row of
\* the collection, each time with the rows so far.
writeToExcelStreaming(f, data) ==
  f \o [k \in 1..Len(data) |-> SheetOf(SubSeq(data, 1, k))]

\* writeToExcel: the file after the call, as the sheets handed to
\* xlsx.writeFile so far; an empty collection returns before any write
writeToExcel(f, data) ==
  IF Len(data) = 0 THEN f ELSE Append(f, SheetOf(data))

\* A faulty variant of SliceUrls: the list is not cut.
SliceUrlsUncapped(list) ==
  list

\* (await readGoogleSheet(..)).slice(0, 5)
SliceUrls(list) ==
  SubSeq(list, 1, Min(RowCap, Len(list)))

\* -------------------------------------------------------------------- state

VARIABLES
  sheetUrls,   \* the list readGoogleSheet returned to processYouTubeChannels
  api,         \* what the remote API may answer in this run: the sizes of its
               \* search responses and the duration tokens of its videos
  pc,          \* where processYouTubeChannels stands
  urls,        \* const urls
  i,           \* 1-based position of the for (const url of urls) loop
  handle,      \* const handle of the current row
  channelId,   \* const channelId of the current row
  videos,      \* const videos of the current row
  j,           \* 1-based position of the for (const video of videos) loop
  videoId,     \* const videoId of the current turn of the inner loop
  details,     \* const details of the current turn of the inner loop
  allVideos,   \* const allVideos
  file,        \* the sheets handed to xlsx.writeFile("videos.xlsx"), in order
  fetched,     \* history: what getVideos returned last (urls), and whether it caught
  noDetail,    \* history: the <<row, place in the catalog>> of the videos whose
               \* detail lookup returned null
  rowLog,      \* history: per finished row, how it ended and its catalog
  calls,       \* history: the remote calls made, as <<api, row>>
  handed,      \* history: the collections writeToExcel was called with
  rows,        \* readGoogleSheet: response.data.values
  spc,         \* readGoogleSheet: where it stands
  cells,       \* readGoogleSheet: rows.flat().map(trim)
  cursor,      \* readGoogleSheet: 1-based position of filter in cells
  lastIndex,   \* readGoogleSheet: youtubeRegex.lastIndex
  kept         \* readGoogleSheet: the elements filter has kept so far

sheetVars == <<rows, spc, cells, cursor, lastIndex, kept>>
vars == <<sheetUrls, api, pc, urls, i, handle, channelId, videos, j,
          videoId, details, allVideos, file, fetched, noDetail, rowLog, calls, handed,
          rows, spc, cells, cursor, lastIndex, kept>>

\* All sequences over S of length at most n
SeqsUpTo(S, n) == UNION {[1..m -> S] : m \in 0..n}

CountOf(s, x) == Cardinality({k \in 1..Len(s) : s[k] = x})

\* The lists processYouTubeChannels may receive: every element passes the
\* sheet filter on its own.
UrlLists ==
  {l \in SeqsUpTo({UrlWithHandle, UrlNoHandle}, MaxUrls) :
     CountOf(l, UrlWithHandle) <= MaxHandles}

\* processYouTubeChannels waits for readGoogleSheet.
PipeStart ==
  /\ pc = "start"
  /\ urls = <<>>
  /\ i = 0
  /\ handle = <<>>
  /\ channelId = <<>>
  /\ videos = <<>>
  /\ j = 0
  /\ videoId = <<>>
  /\ details = Null
  /\ allVideos = <<>>
  /\ file = <<>>
  /\ fetched = [failed |-> FALSE, urls |-> <<>>]
  /\ noDetail = {}
  /\ rowLog = <<>>
  /\ calls = {}
  /\ handed = <<>>

\* readGoogleSheet has returned sheetUrls.
SheetReturned ==
  /\ rows = <<>>
  /\ spc = "returned"
  /\ cells = <<>>
  /\ cursor = 0
  /\ lastIndex = 0
  /\ kept = sheetUrls

Init ==
  /\ sheetUrls \in UrlLists
  /\ api = [sizes |-> 0..MaxItems, tokens |-> {DefaultToken}]
  /\ PipeStart
  /\ SheetReturned

\* A run over at most two rows against an API that answers a search with more
\* items than asked for, and a detail lookup with any of the duration tokens.
InitCap ==
  /\ sheetUrls \in {l \in SeqsUpTo({UrlWithHandle, UrlNoHandle}, 2) :
                      CountOf(l, UrlWithHandle) <= 1}
  /\ api = [sizes |-> {1, MaxResults + 1, MaxResults + 2}, tokens |-> DurationTokens]
  /\ PipeStart
  /\ SheetReturned

\* ------------------------------------------------- processYouTubeChannels

\* The row ends: the loop moves to the next url.
NextRow(status, catalog) ==
  /\ rowLog' = Append(rowLog, [status |-> status, catalog |-> catalog])
  /\ i' = i + 1
  /\ pc' = "row"

\* const urls = (await readGoogleSheet(..)).slice(0, 5), and the early return
\* on an empty list
Start ==
  /\ pc = "start"
  /\ spc = "returned"
  /\ urls' = SliceUrls(sheetUrls)
  /\ IF Len(urls') = 0
     THEN pc' = "done" /\ i' = i
     ELSE pc' = "row" /\ i' = 1
  /\ UNCHANGED <<sheetUrls, api, handle, channelId, videos, j, videoId,
                 details, allVideos, file, fetched, noDetail, rowLog, calls,
                 handed>>
  /\ UNCHANGED sheetVars

\* const handle = extractHandleFromUrl(url); if (!handle) continue
ExtractHandle ==
  /\ pc = "row"
  /\ i <= Len(urls)
  /\ LET h == extractHandleFromUrl(urls[i])
     IN  IF h = NoHandle
         THEN NextRow("invalid", <<>>) /\ handle' = handle
         ELSE /\ handle' = h
              /\ pc' = "channel"
              /\ UNCHANGED <<i, rowLog>>
  /\ UNCHANGED <<sheetUrls, api, videoId, urls, channelId, videos, j, details,
                 allVideos, file, fetched, noDetail, calls, handed>>
  /\ UNCHANGED sheetVars

\* const channelId = await getChannelId(handle); if (!channelId) continue
GetChannelId ==
  /\ pc = "channel"
  /\ \E resp \in ChannelResponses(handle) :
       LET cid == getChannelId(resp)
       IN  IF cid = <<>>
           THEN NextRow("nochannel", <<>>) /\ channelId' = channelId
           ELSE /\ channelId' = cid
                /\ pc' = "catalog"
                /\ UNCHANGED <<i, rowLog>>
  /\ calls' = calls \cup {<<"channels", i>>}
  /\ UNCHANGED <<sheetUrls, api, videoId, urls, handle, videos, j, details,
                 allVideos, file, fetched, noDetail, handed>>
  /\ UNCHANGED sheetVars

\* const videos = await getVideos(channelId)
GetVideos ==
  /\ pc = "catalog"
  /\ \E resp \in CatalogResponses(i, channelId, api.sizes) :
       /\ videos' = getVideos(resp)
       /\ fetched' = [failed |-> getVideosThrows(resp),
                      urls |-> [k \in 1..Len(videos') |-> ObjGet(videos'[k], "url")]]
  /\ j' = 1
  /\ pc' = "video"
  /\ calls' = calls \cup {<<"search", i>>}
  /\ UNCHANGED <<sheetUrls, api, videoId, urls, i, handle, channelId, details,
                 allVideos, file, noDetail, rowLog, handed>>
  /\ UNCHANGED sheetVars

\* One turn of for (const video of videos): the "v=" split, the lookup and the
\* if (details) block.  details.statistics of a record without statistics is
\* undefined, and reading .viewCount of it throws outside every try: the
\* promise of processYouTubeChannels is rejected.
VideoStep ==
  /\ pc = "video"
  /\ j <= Len(videos)
  /\ videoId' = SplitV1(ObjGet(videos[j], "url"))
  /\ \E resp \in DetailResponses(api.tokens) :
       /\ details' = getVideoDetails(resp)
       /\ IF details' # Null /\ "statistics" \notin DOMAIN details'
          THEN videos' = videos /\ j' = j /\ pc' = "crashed"
          ELSE /\ videos' = AfterDetails(videos, j, details')
               /\ j' = j + 1
               /\ pc' = pc
       /\ noDetail' = IF details' = Null
                      THEN noDetail \cup {<<i, j>>}
                      ELSE noDetail
  /\ calls' = calls \cup {<<"videos", i>>}
  /\ UNCHANGED <<sheetUrls, api, urls, i, handle, channelId,
                 allVideos, file, fetched, rowLog, handed>>
  /\ UNCHANGED sheetVars

\* allVideos.push(...videos), after the last video of the row; the block
\* scope of videoId and details ends with the inner loop
PushVideos ==
  /\ pc = "video"
  /\ j > Len(videos)
  /\ allVideos' = Push(allVideos, videos)
  /\ NextRow(IF fetched.failed THEN "fetchfailed" ELSE "pushed", fetched.urls)
  /\ videoId' = <<>>
  /\ details' = Null
  /\ UNCHANGED <<sheetUrls, api, urls, handle, channelId, videos, j,
                 file, fetched, noDetail, calls, handed>>
  /\ UNCHANGED sheetVars

\* writeToExcel("videos.xlsx", allVideos) after the loop
WriteToExcel ==
  /\ pc = "row"
  /\ i > Len(urls)
  /\ file' = writeToExcel(file, allVideos)
  /\ handed' = Append(handed, allVideos)
  /\ pc' = "done"
  /\ UNCHANGED <<sheetUrls, api, videoId, urls, i, handle, channelId, videos, j,
                 details, allVideos, fetched, noDetail, rowLog, calls>>
  /\ UNCHANGED sheetVars

Next ==
  \/ Start
  \/ ExtractHandle
  \/ GetChannelId
  \/ GetVideos
  \/ VideoStep
  \/ PushVideos
  \/ WriteToExcel

Spec == Init /\ [][Next]_vars

SpecCap == InitCap /\ [][Next]_vars


\* ----------------------------------------------------------- readGoogleSheet

\* Cells of column C: a short URL, a channel URL with blanks around it, a
\* cell that is no URL, and a longer channel URL.
SheetCells ==
  { <<"y","o","u","t","u",".","b","e","/","x">>,
    <<" ">> \o UrlWithHandle \o <<" ">>,
    <<"n","/","a">>,
    <<"h","t","t","p","s",":","/","/","w","w","w",".">> \o UrlWithHandle }

\* response.data.values: one array per sheet row, empty for an empty row
SheetRows == SeqsUpTo({<<c>> : c \in SheetCells} \cup {<<>>}, MaxSheetRows)

\* readGoogleSheet is called; processYouTubeChannels waits for it.
InitSheet ==
  /\ rows \in SheetRows
  /\ spc = "call"
  /\ cells = <<>>
  /\ cursor = 0
  /\ lastIndex = 0
  /\ kept = <<>>
  /\ sheetUrls = <<>>
  /\ api = [sizes |-> 0..MaxItems, tokens |-> {DefaultToken}]
  /\ PipeStart

\* await sheets.spreadsheets.values.get(..): the call may throw (caught:
\* return []); no or empty values return []; otherwise flat, trim, and a
\* fresh youtubeRegex whose lastIndex is 0
SheetGet ==
  /\ spc = "call"
  /\ \E threw \in BOOLEAN :
       IF threw \/ Len(rows) = 0
       THEN /\ spc' = "returned"
            /\ sheetUrls' = <<>>
            /\ UNCHANGED <<cells, cursor, lastIndex, kept>>
       ELSE /\ spc' = "filter"
            /\ cells' = [k \in 1..Len(Flat(rows)) |-> Trim(Flat(rows)[k])]
            /\ cursor' = 1
            /\ lastIndex' = 0
            /\ kept' = <<>>
            /\ UNCHANGED sheetUrls
  /\ UNCHANGED <<rows, api, videoId, pc, urls, i, handle, channelId, videos, j,
                 details, allVideos, file, fetched, noDetail, rowLog, calls,
                 handed>>

\* One call of the filter callback: youtubeRegex.test(url)
FilterCell ==
  /\ spc = "filter"
  /\ cursor <= Len(cells)
  /\ LET t == RegexTest(cells[cursor], lastIndex)
     IN  /\ kept' = IF t.found THEN Append(kept, cells[cursor]) ELSE kept
         /\ lastIndex' = t.lastIndex
  /\ cursor' = cursor + 1
  /\ UNCHANGED <<rows, spc, cells, sheetUrls, api, videoId, pc, urls, i, handle,
                 channelId, videos, j, details, allVideos, file, fetched,
                 noDetail, rowLog, calls, handed>>

\* filter is through: its result is returned
SheetReturn ==
  /\ spc = "filter"
  /\ cursor > Len(cells)
  /\ sheetUrls' = kept
  /\ spc' = "returned"
  /\ UNCHANGED <<rows, cells, cursor, lastIndex, kept, api, videoId, pc, urls, i,
                 handle, channelId, videos, j, details, allVideos, file,
                 fetched, noDetail, rowLog, calls, handed>>

NextSheet ==
  \/ SheetGet
  \/ FilterCell
  \/ SheetReturn

SpecSheet == InitSheet /\ [][NextSheet]_vars


\* ------------------------------------------------------------------ claims

UrlsOf(vs) == [k \in 1..Len(vs) |-> ObjGet(vs[k], "url")]
Range(f) == {f[k] : k \in DOMAIN f}

\* The catalogs of the finished rows, one after the other
RECURSIVE CatalogsOf(_)
CatalogsOf(log) ==
  IF log = <<>> THEN <<>>
  ELSE CatalogsOf(SubSeq(log, 1, Len(log) - 1)) \o log[Len(log)].catalog

\* The url of the k-th search result of input row r
ItemUrl(r, k) == WatchUrl(VideoItem(r, k, <<>>).id.videoId)

EnrichmentKeys ==
  {"viewCount", "likeCount", "commentCount", "duration", "readableDuration"}

RowFailed(r) == rowLog[r].status \in {"invalid", "nochannel", "fetchfailed"}

\* C1: every video whose detail lookup returned null is in the collection
\* handed to writeToExcel, without any of the five enrichment fields, and
\* stands before and after the same videos of its catalog as in the catalog.
C1_DetailFailureKeepsVideo ==
  \A n \in 1..Len(handed) : \A r \in 1..Len(rowLog) :
    LET cat == rowLog[r].catalog
        out == handed[n]
    IN  \A k \in 1..Len(cat) :
          <<r, k>> \in noDetail =>
            \E p \in 1..Len(out) :
              /\ ObjGet(out[p], "url") = cat[k]
              /\ \A key \in EnrichmentKeys : ~ObjHas(out[p], key)
              /\ \A k2 \in 1..Len(cat) :
                   \E p2 \in 1..Len(out) :
                     /\ ObjGet(out[p2], "url") = cat[k2]
                     /\ (k2 < k) = (p2 < p)
                     /\ (k2 > k) = (p2 > p)

\* C1 witness: a collection was handed over in which a catalog of several
\* videos has one without details between or beside enriched ones.
C1_Witness ==
  /\ Len(handed) = 1
  /\ \E r \in 1..Len(rowLog) :
       /\ Len(rowLog[r].catalog) >= 2
       /\ \E k, k2 \in 1..Len(rowLog[r].catalog) :
            /\ <<r, k>> \in noDetail
            /\ <<r, k2>> \notin noDetail

\* C2: no error escapes processYouTubeChannels, whatever the remote calls
\* answer: the run never ends in a rejected promise.
C2_NoErrorEscapes ==
  pc # "crashed"

\* C3: the collection handed to writeToExcel is the concatenation, in input
\* row order, of the catalogs getVideos returned, each in response order.
C3_OutputIsConcatenation ==
  \A n \in 1..Len(handed) :
    /\ Len(rowLog) = Len(urls)
    /\ UrlsOf(handed[n]) = CatalogsOf(rowLog)
    /\ \A r \in 1..Len(rowLog) : \A k \in 1..Len(rowLog[r].catalog) :
         rowLog[r].catalog[k] = ItemUrl(r, k)

\* C3 witness: the collection handed over holds the catalogs of two rows,
\* with a skipped row in the input and a failed detail lookup.
C3_Witness ==
  /\ Len(handed) = 1
  /\ noDetail # {}
  /\ \E r1, r2, r3 \in 1..Len(rowLog) :
       /\ r1 < r2
       /\ Len(rowLog[r1].catalog) >= 2
       /\ Len(rowLog[r2].catalog) >= 1
       /\ RowFailed(r3)

\* C4: at most maxResults videos of one channel reach the output, also when
\* the search response holds more items.
C4_CatalogCapEnforced ==
  \A n \in 1..Len(handed) : \A r \in 1..Len(rowLog) :
    Cardinality({p \in 1..Len(handed[n]) :
                   ObjGet(handed[n][p], "url") \in Range(rowLog[r].catalog)})
      <= MaxResults

\* C5: only the first five URLs of the list readGoogleSheet returned are
\* processed: every remote call and every output row belongs to one of them.
C5_RowCapEnforced ==
  /\ Len(urls) <= RowCap
  /\ \A k \in 1..Len(urls) : urls[k] = sheetUrls[k]
  /\ i <= RowCap + 1
  /\ Len(rowLog) <= RowCap
  /\ \A c \in calls : c[2] >= 1 /\ c[2] <= RowCap /\ c[2] <= Len(sheetUrls)
  /\ UrlsOf(allVideos) = CatalogsOf(rowLog)
  /\ \A n \in 1..Len(handed) : \A p \in 1..Len(handed[n]) :
       \E r \in 1..Min(RowCap, Len(sheetUrls)) : \E k \in 1..Len(handed[n]) :
         ObjGet(handed[n][p], "url") = ItemUrl(r, k)

\* C5 witness: the list has a sixth URL that names a channel, the run is over
\* and has collected videos.
C5_Witness ==
  /\ Len(sheetUrls) > RowCap
  /\ extractHandleFromUrl(sheetUrls[RowCap + 1]) # NoHandle
  /\ pc = "done"
  /\ Len(allVideos) > 0

\* C6: a row that fails (no handle, no channel, catalog fetch caught) gives no
\* output row and makes no further remote call, and every later row is still
\* processed: when the run has ended every row is finished and the output is
\* the catalogs of the rows.
C6_FailedRowIsolated ==
  \A r \in 1..Len(rowLog) :
    RowFailed(r) =>
      /\ rowLog[r].catalog = <<>>
      /\ <<"videos", r>> \notin calls
      /\ rowLog[r].status = "invalid" => <<"channels", r>> \notin calls
      /\ rowLog[r].status # "fetchfailed" => <<"search", r>> \notin calls
      /\ pc \in {"done", "crashed"} =>
           /\ Len(rowLog) = Len(urls)
           /\ UrlsOf(allVideos) = CatalogsOf(rowLog)

\* C7: after a successful detail lookup the video's duration is the token of
\* the detail record and its readableDuration is parseDuration of that token.
C7_DurationFromDetails ==
  (pc = "video" /\ details # Null /\ "statistics" \in DOMAIN details) =>
    LET v == videos[j - 1]
        tok == details.contentDetails.duration
    IN  /\ ObjHas(v, "duration")
        /\ ObjGet(v, "duration") = tok
        /\ ObjHas(v, "readableDuration")
        /\ ObjGet(v, "readableDuration") = parseDuration(tok)

\* What every run keeps about the output file: at most one write, only as the
\* last step of a run that finished every row, carrying the whole collection.
WriteOnlyAtEnd ==
  /\ Len(file) <= 1
  /\ pc # "done" => file = <<>>
  /\ file # <<>> =>
       /\ Len(rowLog) = Len(urls)
       /\ i > Len(urls)
       /\ Len(file[1]) = Len(allVideos) + 1
       /\ file[1] = SheetOf(allVideos)
       /\ UrlsOf(allVideos) = CatalogsOf(rowLog)

\* C8 as stated: the file is written exactly once in every run, at the end.
C8_WrittenExactlyOnce ==
  /\ WriteOnlyAtEnd
  /\ pc = "done" => Len(file) = 1

\* C8 amended: the file is written at most once, only after the last row is
\* finished and with the whole collection; a finished run has written it
\* exactly when it collected a video, and no other run writes at all.
C8_WrittenAtMostOnceAtEnd ==
  /\ WriteOnlyAtEnd
  /\ pc = "done" => ((Len(file) = 1) = (Len(allVideos) > 0))

\* C8 witness: a finished run over several rows, one of them skipped, wrote
\* its videos.
C8_Witness ==
  /\ pc = "done"
  /\ Len(file) = 1
  /\ Len(allVideos) >= 2
  /\ \E r \in 1..Len(rowLog) : RowFailed(r)

\* A cell passes the URL pattern, tested on its own
MatchesYoutube(c) == RegexTest(c, 0).found

\* C9: readGoogleSheet returns the trimmed cells that match the pattern, in
\* sheet order, whatever their neighbours.
C9_FilterIsStateless ==
  (spc = "returned" /\ cursor > 0) => sheetUrls = SelectSeq(cells, MatchesYoutube)

\* C10: in the sheet written, every cell of a data row lies under a header
\* cell, and the header names the field the cell holds.
C10_CellsUnderHeaders ==
  \A n \in 1..Len(file) : \A r \in 2..Len(file[n]) :
    /\ Len(file[n][r]) <= Len(file[n][1])
    /\ \A c \in 1..Len(file[n][r]) :
         /\ c <= Len(file[n][1])
         /\ file[n][1][c] = ObjKeys(allVideos[r - 1])[c]

=============================================================================
